---- MODULE Spec2Model ----
(***************************************************************************)
(* Model of the anki-korean utility scripts:                               *)
(*   src/src/video_splitter.py   VideoFrameExtractor                       *)
(*   src/src/box_cropper.py      apply_large_crop, box detection,          *)
(*                               process_image_file                        *)
(*   src/box_cropper.py          the standalone detect_and_crop_boxes      *)
(*   src/src/reduce_duplicates.py find_duplicates_advanced                 *)
(*   src/src/create_deck.py      remove_duplicates_from_csv, main          *)
(* The scripts are independent programs, so each has its own               *)
(* specification (SpecVideo, SpecCrop, SpecBox, SpecDup, SpecCsv and       *)
(* SpecMain); the variables of the other scripts stay at their idle values.*)
(***************************************************************************)
EXTENDS Integers, Sequences, FiniteSets, TLC

None == "None"

Min(a, b) == IF a <= b THEN a ELSE b
Max(a, b) == IF a >= b THEN a ELSE b

(***************************************************************************)
(* Bounds of the model.                                                    *)
(***************************************************************************)
MaxFps == 2
MaxFrames == 4
MaxInterval == 2
MaxHalfSec == 4
MaxDim == 3
MaxContours == 2
MaxImages == 3
MaxThreshold == 3
MaxRows == 3

VARIABLES
  \* ---- video_splitter.py: the video file (environment) ----
  video_exists,      \* Path(video_path).exists()
  cap_opens,         \* whether cv2.VideoCapture can open the file
  video_fps,         \* what CAP_PROP_FPS reports
  video_frame_count, \* what CAP_PROP_FRAME_COUNT reports
  readable_frames,   \* number of frames cap.read() can actually decode
  \* ---- VideoFrameExtractor fields and side effects ----
  vpc,               \* position in __init__ / extract_frames
  output_dir_made,   \* self.output_dir.mkdir was called
  cap_created,       \* cv2.VideoCapture(...) was called
  fps, total_frames, duration,
  \* ---- extract_frames locals ----
  interval, start_time, end_time, output_format, start_frame, end_frame,
  cap_pos,           \* index of the frame the next cap.read() decodes
  frame_count, extracted_count, extracted_files,
  written,           \* cv2.imwrite calls so far: [path, frame]
  result             \* the returned list

VARIABLES
  \* ---- box_cropper.py: the environment ----
  script,            \* "module" (src/src/box_cropper.py), "standalone"
                     \* (src/box_cropper.py) or "crop" (apply_large_crop alone)
  image_loads,       \* whether cv2.imread returns an image
  image,             \* shape [w, h] of the image in the file
  tempframes_exists, \* whether the directory tempframes/ exists
  crop_region,       \* the crop_region argument, or NoCrop
  \* ---- locals ----
  bpc,
  img,               \* shape [w, h] of the current image
  crop_used,         \* x, y, w, h after the clamping of apply_large_crop
  crop_offset,       \* the offset apply_large_crop returns
  found_contours,    \* bounding rectangles of the contours, in the order found
  boxes,             \* the filtered list: [rect, src]
  dirs_made,         \* directories created by os.makedirs
  files_written,     \* cv2.imwrite calls that wrote a file: [path, content]
  saved_files,
  box_result

videoVars == <<video_exists, cap_opens, video_fps, video_frame_count,
               readable_frames, vpc, output_dir_made, cap_created, fps,
               total_frames, duration, interval, start_time, end_time,
               output_format, start_frame, end_frame, cap_pos, frame_count, extracted_count,
               extracted_files, written, result>>

VARIABLES
  \* ---- reduce_duplicates.py ----
  directory,         \* os.listdir(directory): the files, in listing order
  threshold,
  dpc,
  image_hashes,      \* [path, avg_hash, p_hash, d_hash] per hashed image
  pair_i, pair_j,    \* the pair the nested loop is at (1-based)
  duplicates         \* <<path1, path2, difference>> tuples

VARIABLES
  \* ---- create_deck.py ----
  csv_exists,        \* os.path.exists(csv_file_path)
  csv_opens,         \* whether open(csv_file_path) succeeds
  rows,              \* the rows csv.DictReader yields
  cpc,
  csv_opened,        \* open(csv_file_path) was called and returned a file
  csv_exception,     \* the except clause of line 40 ran
  row_index,         \* number of rows read so far
  unique_pairs,      \* the insertion-ordered dict, as <<korean, english>> items
  duplicate_count,
  csv_result         \* the returned list

VARIABLES
  \* ---- create_deck.py: main ----
  mpc,
  deck_notes,        \* my_deck.notes, in the order add_note was called
  note_count,
  package_calls,     \* Package(my_deck).write_to_file calls: [name, notes]
  package_files      \* the package files those calls left on disk

boxVars == <<script, image_loads, image, tempframes_exists, crop_region, bpc, img,
             crop_used, crop_offset, found_contours, boxes, dirs_made,
             files_written, saved_files, box_result>>

dupVars == <<directory, threshold, dpc, image_hashes, pair_i, pair_j,
             duplicates>>

csvVars == <<csv_exists, csv_opens, rows, cpc, csv_opened, csv_exception,
             row_index, unique_pairs, duplicate_count, csv_result>>

mainVars == <<mpc, deck_notes, note_count, package_calls, package_files>>

vars == <<videoVars, boxVars, dupVars, csvVars, mainVars>>

notVideo == <<boxVars, dupVars, csvVars, mainVars>>
notBox == <<videoVars, dupVars, csvVars, mainVars>>
notDup == <<videoVars, boxVars, csvVars, mainVars>>
notCsv == <<videoVars, boxVars, dupVars, mainVars>>
notMain == <<videoVars, boxVars, dupVars, csvVars>>

(***************************************************************************)
(* Times are seconds as exact fractions num/den (the code uses floats).    *)
(***************************************************************************)
Time(n, d) == [num |-> n, den |-> d]

Times == {Time(h, 2) : h \in 0..MaxHalfSec}

\* --end-time is not validated: it may lie before the start of the video
EndTimes == Times \cup {Time(-1, 2), Time(-3, 2)}

\* end_time = None, and a duration not yet computed
NoTime == [none |-> TRUE]

\* int(t * fps): truncation towards zero
TimeToFrame(t, f) ==
  IF t.num * f >= 0 THEN (t.num * f) \div t.den
  ELSE 0 - ((0 - t.num * f) \div t.den)

\* self.duration = self.total_frames / self.fps if self.fps > 0 else 0
Duration(tf, f) == IF f > 0 THEN Time(tf, f) ELSE Time(0, 1)

\* end_frame = min(int(end_time * self.fps), self.total_frames)
EndFrame(et, f, tf) == Min(TimeToFrame(et, f), tf)

\* str.lower() on the format names the model uses
Lower(s) == CASE s = "JPG" -> "jpg"
              [] s = "PNG" -> "png"
              [] OTHER -> s

Formats == {"png", "jpg", "JPG"}

\* f"{timestamp:.2f}" with timestamp = frame / fps: hundredths of a second,
\* rounded to nearest
Timestamp(frame, f) == (200 * frame + f) \div (2 * f)

\* f"frame_{extracted_count:06d}_t{timestamp:.2f}s.jpg" / ".png"
FrameFilename_ByFrameCount(fc, ec, sf, f, fmt) ==
  [seq |-> fc, ts |-> Timestamp(fc + sf, f),
   ext |-> IF Lower(fmt) = "jpg" THEN "jpg" ELSE "png"]

FrameFilename(fc, ec, sf, f, fmt) ==
  [seq |-> ec, ts |-> Timestamp(fc + sf, f),
   ext |-> IF Lower(fmt) = "jpg" THEN "jpg" ELSE "png"]

\* cap.read(): ret is False once the decoder runs out of frames
ReadOk == cap_pos < readable_frames

\* "if not ret or frame_count + start_frame > end_frame: break"
ShouldBreak_OffByOne(ret, fc, sf, ef) == ~ret \/ fc + sf > ef + 1

ShouldBreak(ret, fc, sf, ef) == ~ret \/ fc + sf > ef

VideoInit ==
  /\ video_exists \in BOOLEAN
  /\ cap_opens \in BOOLEAN
  /\ (~video_exists => ~cap_opens)
  /\ video_fps \in 0..MaxFps
  /\ video_frame_count \in 0..MaxFrames
  /\ readable_frames \in 0..MaxFrames
  /\ vpc = "init"
  /\ output_dir_made = FALSE
  /\ cap_created = FALSE
  /\ fps = None /\ total_frames = None /\ duration = NoTime
  /\ interval = None /\ output_format = None
  /\ start_time = NoTime /\ end_time = NoTime
  /\ start_frame = None /\ end_frame = None /\ cap_pos = None
  /\ frame_count = None /\ extracted_count = None
  /\ extracted_files = <<>> /\ written = <<>> /\ result = None

videoEnv == <<video_exists, cap_opens, video_fps, video_frame_count,
              readable_frames>>
videoFields == <<fps, total_frames, duration>>
videoLocals == <<interval, start_time, end_time, output_format,
                 start_frame, end_frame, cap_pos,
                 frame_count, extracted_count, extracted_files, written,
                 result>>

\* __init__, lines 42-46: the existence check
Ctor_CheckExists_MkdirFirst ==
  /\ vpc = "init"
  /\ output_dir_made' = TRUE
  /\ vpc' = IF ~video_exists THEN "FileNotFoundError" ELSE "dir_made"
  /\ UNCHANGED <<notVideo, videoEnv, cap_created, videoFields, videoLocals>>

Ctor_CheckExists ==
  /\ vpc = "init"
  /\ vpc' = IF ~video_exists THEN "FileNotFoundError" ELSE "exists_checked"
  /\ UNCHANGED <<notVideo, videoEnv, output_dir_made, cap_created, videoFields,
                 videoLocals>>

\* __init__, line 49: self.output_dir.mkdir(parents=True, exist_ok=True)
Ctor_Mkdir ==
  /\ vpc = "exists_checked"
  /\ output_dir_made' = TRUE
  /\ vpc' = "dir_made"
  /\ UNCHANGED <<notVideo, videoEnv, cap_created, videoFields, videoLocals>>

\* __init__, lines 52-54: open the capture
Ctor_OpenCapture ==
  /\ vpc = "dir_made"
  /\ cap_created' = TRUE
  /\ vpc' = IF ~cap_opens THEN "ValueError" ELSE "cap_opened"
  /\ UNCHANGED <<notVideo, videoEnv, output_dir_made, videoFields, videoLocals>>

\* __init__, lines 57-59: the video properties
Ctor_Properties ==
  /\ vpc = "cap_opened"
  /\ fps' = video_fps
  /\ total_frames' = video_frame_count
  /\ duration' = Duration(video_frame_count, video_fps)
  /\ vpc' = "ready"
  /\ UNCHANGED <<notVideo, videoEnv, output_dir_made, cap_created, videoLocals>>

\* extract_frames, lines 87-102: the window and the seek
Extract_Start ==
  /\ vpc = "ready"
  /\ \E n \in 1..MaxInterval, st \in Times, et \in EndTimes \cup {NoTime},
        fmt \in Formats :
       LET sf == TimeToFrame(st, fps)
       IN /\ interval' = n
          /\ start_time' = st
          /\ end_time' = et
          /\ output_format' = fmt
          /\ start_frame' = sf
          /\ end_frame' = EndFrame(IF et = NoTime THEN duration ELSE et,
                                 fps, total_frames)
          /\ cap_pos' = sf
  /\ extracted_files' = <<>>
  /\ frame_count' = 0
  /\ extracted_count' = 0
  /\ vpc' = "loop"
  /\ UNCHANGED <<notVideo, videoEnv, output_dir_made, cap_created, videoFields,
                 written, result>>

\* extract_frames, lines 105-107 and 135-136: leave the loop and return
Extract_Break ==
  /\ vpc = "loop"
  /\ ShouldBreak(ReadOk, frame_count, start_frame, end_frame)
  /\ cap_pos' = IF ReadOk THEN cap_pos + 1 ELSE cap_pos
  /\ result' = extracted_files
  /\ vpc' = "returned"
  /\ UNCHANGED <<notVideo, videoEnv, output_dir_made, cap_created, videoFields,
                 interval, start_time, end_time, output_format,
                 start_frame, end_frame,
                 frame_count, extracted_count, extracted_files, written>>

\* extract_frames, lines 110-133: a sampled frame is written
Extract_Save ==
  /\ vpc = "loop"
  /\ ~ShouldBreak(ReadOk, frame_count, start_frame, end_frame)
  /\ frame_count % interval = 0
  /\ fps > 0
  /\ LET filepath == FrameFilename(frame_count, extracted_count,
                                   start_frame, fps, output_format)
     IN /\ written' = Append(written, [path |-> filepath, frame |-> cap_pos])
        /\ extracted_files' = Append(extracted_files, filepath)
  /\ extracted_count' = extracted_count + 1
  /\ frame_count' = frame_count + 1
  /\ cap_pos' = cap_pos + 1
  /\ UNCHANGED <<notVideo, videoEnv, vpc, output_dir_made, cap_created, videoFields,
                 interval, start_time, end_time, output_format,
                 start_frame, end_frame, result>>

\* extract_frames, line 111: timestamp = (frame_count + start_frame) / self.fps
\* divides by the float 0.0 when the capture reported no frame rate
Extract_ZeroDivision ==
  /\ vpc = "loop"
  /\ ~ShouldBreak(ReadOk, frame_count, start_frame, end_frame)
  /\ frame_count % interval = 0
  /\ fps = 0
  /\ cap_pos' = cap_pos + 1
  /\ vpc' = "ZeroDivisionError"
  /\ UNCHANGED <<notVideo, videoEnv, output_dir_made, cap_created, videoFields,
                 interval, start_time, end_time, output_format,
                 start_frame, end_frame,
                 frame_count, extracted_count, extracted_files, written,
                 result>>

\* extract_frames, lines 110 and 133: a frame between two samples
Extract_Skip ==
  /\ vpc = "loop"
  /\ ~ShouldBreak(ReadOk, frame_count, start_frame, end_frame)
  /\ frame_count % interval # 0
  /\ frame_count' = frame_count + 1
  /\ cap_pos' = cap_pos + 1
  /\ UNCHANGED <<notVideo, videoEnv, vpc, output_dir_made, cap_created, videoFields,
                 interval, start_time, end_time, output_format,
                 start_frame, end_frame,
                 extracted_count, extracted_files, written, result>>

VideoNext ==
  \/ Ctor_CheckExists
  \/ Ctor_Mkdir
  \/ Ctor_OpenCapture
  \/ Ctor_Properties
  \/ Extract_Start
  \/ Extract_Break
  \/ Extract_Save
  \/ Extract_ZeroDivision
  \/ Extract_Skip


(***************************************************************************)
(* Claims about video_splitter.py, checked under SpecVideo.                *)
(***************************************************************************)
InExtract == vpc \in {"loop", "returned", "ZeroDivisionError"}
ExtractEnded == vpc \in {"returned", "ZeroDivisionError"}
WrittenFrames == {written[i].frame : i \in DOMAIN written}

\* C1: with interval N >= 1 the frame read at offset k from start_frame is
\* saved if and only if k % N = 0 and the loop has not stopped; no frame
\* with k % N # 0 is ever saved, and the first frame read (k = 0) is always
\* saved when it is readable and inside the window.
C1_EveryNthFrame ==
  InExtract =>
    /\ \A k \in 0..(frame_count - 1) :
         (start_frame + k \in WrittenFrames) <=> (k % interval = 0)
    /\ \A f \in WrittenFrames :
         /\ f - start_frame \in 0..(frame_count - 1)
         /\ (f - start_frame) % interval = 0
    /\ (ExtractEnded /\ start_frame < readable_frames
          /\ start_frame <= end_frame)
         => start_frame \in WrittenFrames

\* C1 restricted to captures that report a frame rate: what the loop does
\* whenever line 111 can be evaluated.
C1_EveryNthFrame_PositiveFps == (InExtract /\ fps > 0) => C1_EveryNthFrame

C1_Witness_ZeroFps ==
  /\ vpc = "ZeroDivisionError" /\ fps = 0 /\ frame_count = 0
  /\ start_frame < readable_frames /\ start_frame <= end_frame
  /\ written = <<>>

\* C2: start_frame = int(start_time*fps), end_frame = min(int(end_time*fps),
\* total_frames) with end_time = None meaning the duration; every saved
\* frame has index f with start_frame <= f <= end_frame; the loop never
\* processes a frame past end_frame; and when start_frame > end_frame nothing
\* is saved and the returned list is empty.
C2_Window ==
  InExtract =>
    /\ start_frame = (start_time.num * fps) \div start_time.den
    /\ end_time # NoTime =>
         LET p == end_time.num * fps
             e == IF p >= 0 THEN p \div end_time.den
                  ELSE 0 - ((0 - p) \div end_time.den)
         IN end_frame = IF e <= total_frames THEN e ELSE total_frames
    /\ end_time = NoTime => end_frame = IF fps > 0 THEN total_frames ELSE 0
    /\ \A f \in WrittenFrames : start_frame <= f /\ f <= end_frame
    /\ frame_count > 0 => start_frame + frame_count - 1 <= end_frame
    /\ vpc = "loop" /\ start_frame + frame_count > end_frame
         => ~ENABLED Extract_Save /\ ~ENABLED Extract_Skip
    /\ start_frame > end_frame =>
         /\ written = <<>> /\ frame_count = 0
         /\ vpc = "returned" => result = <<>>

C2_Witness ==
  /\ vpc = "returned" /\ Len(result) >= 2
  /\ start_frame > 0
  /\ cap_pos = end_frame + 2
  /\ end_frame < total_frames

C2_Witness_EmptyWindow ==
  vpc = "returned" /\ start_frame > end_frame /\ start_frame < readable_frames

\* C3: at every loop iteration len(extracted_files) = extracted_count, the
\* i-th returned path (0-based) carries sequence number i, the paths are in
\* increasing order of source frame index, no two paths are equal, and so
\* no imwrite of the call overwrites another.
C3_ReturnedPaths ==
  InExtract =>
    /\ Len(extracted_files) = extracted_count
    /\ Len(written) = extracted_count
    /\ \A i \in DOMAIN extracted_files :
         /\ extracted_files[i].seq = i - 1
         /\ written[i].path = extracted_files[i]
    /\ \A i, j \in DOMAIN extracted_files :
         i < j => /\ written[i].frame < written[j].frame
                  /\ extracted_files[i] # extracted_files[j]
    /\ vpc = "returned" => result = extracted_files

C3_Witness ==
  vpc = "returned" /\ Len(result) >= 2 /\ interval >= 2

\* C4: a missing video raises FileNotFoundError before the output directory
\* is created or a capture is opened; an existing video that cannot be opened
\* raises ValueError; fps, total_frames and duration are set only when both
\* checks pass, with duration = total_frames / fps when fps > 0, else 0.
C4_CtorChecks ==
  /\ vpc = "FileNotFoundError" =>
       ~video_exists /\ ~output_dir_made /\ ~cap_created
  /\ ~video_exists => ~output_dir_made /\ ~cap_created
  /\ vpc = "ValueError" => video_exists /\ ~cap_opens
  /\ (video_exists /\ ~cap_opens) => vpc # "FileNotFoundError"
  /\ (~video_exists /\ vpc # "init") => vpc = "FileNotFoundError"
  /\ (video_exists /\ ~cap_opens /\ cap_created) => vpc = "ValueError"
  /\ duration # NoTime =>
       /\ video_exists /\ cap_opens /\ output_dir_made /\ cap_created
       /\ fps = video_fps /\ total_frames = video_frame_count
       /\ fps > 0 => duration = [num |-> total_frames, den |-> fps]
       /\ fps <= 0 => duration = [num |-> 0, den |-> 1]
  /\ vpc \in {"init", "exists_checked", "dir_made", "cap_opened",
              "FileNotFoundError", "ValueError"} =>
       duration = NoTime

C4_Witness_NotFound == vpc = "FileNotFoundError"
C4_Witness_Ready ==
  vpc = "ready" /\ fps = 0 /\ total_frames > 0 /\ duration = Time(0, 1)

(***************************************************************************)
(* box_cropper.py                                                          *)
(***************************************************************************)
Rect(x, y, w, h) == [x |-> x, y |-> y, w |-> w, h |-> h]
Shape(w, h) == [w |-> w, h |-> h]

NoCrop == [none |-> TRUE]
NoShape == [none |-> TRUE]

\* What a call returned
Unset == [kind |-> "unset"]
ReturnNone == [kind |-> "None"]
ReturnList(l) == [kind |-> "list", value |-> l]

\* The thresholds of detect_and_crop_boxes_from_image (defaults) and of the
\* standalone script
MinArea == 5000
MinWidth == 809
MinHeight == 175
StandaloneMinArea == 5000
StandaloneMinWidth == 100
StandaloneMinHeight == 30

\* Length of the Python slice a[start:stop] of a sequence of n items, for
\* 0 <= start <= n: a negative stop counts from the end
SliceLen(start, stop, n) ==
  LET s1 == IF stop < 0 THEN stop + n ELSE stop
      s2 == IF s1 < 0 THEN 0 ELSE IF s1 > n THEN n ELSE s1
  IN IF s2 > start THEN s2 - start ELSE 0

\* apply_large_crop, lines 56-63: the clamped region
ApplyLargeCrop(im, cr) ==
  LET x == Max(0, Min(cr.x, im.w))
      y == Max(0, Min(cr.y, im.h))
  IN Rect(x, y, Min(cr.w, im.w - x), Min(cr.h, im.h - y))

\* apply_large_crop, line 66: cropped_img = img[y : y + h, x : x + w]
CroppedShape(im, r) ==
  Shape(SliceLen(r.x, r.x + r.w, im.w), SliceLen(r.y, r.y + r.h, im.h))

\* "if area > min_area and w > min_width and h > min_height"
PassesFilter_NonStrict(r, min_area, min_width, min_height) ==
  r.w * r.h >= min_area /\ r.w >= min_width /\ r.h >= min_height

PassesFilter(r, min_area, min_width, min_height) ==
  r.w * r.h > min_area /\ r.w > min_width /\ r.h > min_height

\* The loop over the contours: the rectangles that pass, in contour order,
\* each with the index of the contour it came from
FilterBoxes(contours, min_area, min_width, min_height) ==
  SelectSeq([i \in DOMAIN contours |-> [rect |-> contours[i], src |-> i]],
            LAMBDA b : PassesFilter(b.rect, min_area, min_width, min_height))

\* boxes.sort(key=lambda box: box[1]): a stable sort on the top edge
RECURSIVE InsertByY(_, _)
InsertByY(sorted, b) ==
  IF sorted = <<>> THEN <<b>>
  ELSE IF sorted[Len(sorted)].rect.y <= b.rect.y THEN Append(sorted, b)
  ELSE Append(InsertByY(SubSeq(sorted, 1, Len(sorted) - 1), b),
              sorted[Len(sorted)])

RECURSIVE SortByY(_)
SortByY(bs) ==
  IF bs = <<>> THEN <<>>
  ELSE InsertByY(SortByY(SubSeq(bs, 1, Len(bs) - 1)), bs[Len(bs)])

\* Images and crop regions the box scripts are run on
ImageShapes == {Shape(50, 50), Shape(1000, 700)}
CropRegions == {NoCrop, Rect(100, 400, 800, 200), Rect(0, 0, 1000, 700),
                Rect(50, 0, 2000, 2000)}

\* Bounding rectangles cv2.boundingRect can report: sizes on both sides of
\* every threshold, at two heights in the image
RectSizes == {Shape(810, 176), Shape(809, 176), Shape(810, 175),
              Shape(101, 50), Shape(125, 40), Shape(100, 60),
              Shape(200, 30), Shape(101, 31)}
RectPool == {Rect(0, y, sz.w, sz.h) : y \in {0, 5}, sz \in RectSizes}

SeqsUpTo(S, n) == UNION {[1..k -> S] : k \in 0..n}

\* What cv2.findContours + cv2.boundingRect can return for an image: any
\* list of rectangles lying inside it
ContourLists(im) ==
  SeqsUpTo({r \in RectPool : r.x + r.w <= im.w /\ r.y + r.h <= im.h},
           MaxContours)

\* f"{output_dir}/{base_name}_box_{i + 1:02d}.png" and the other file names
BoxPath(dir, kind, n) == [dir |-> dir, kind |-> kind, n |-> n]

BoxInit ==
  /\ script \in {"module", "standalone"}
  /\ image_loads \in BOOLEAN
  /\ image \in ImageShapes
  /\ img = NoShape
  /\ crop_region \in (IF script = "module" THEN CropRegions ELSE {NoCrop})
  /\ tempframes_exists \in (IF script = "module" THEN BOOLEAN ELSE {FALSE})
  /\ bpc = "start"
  /\ crop_used = NoCrop /\ crop_offset = NoCrop
  /\ found_contours = <<>> /\ boxes = <<>>
  /\ dirs_made = {} /\ files_written = <<>> /\ saved_files = <<>>
  /\ box_result = Unset

boxEnv == <<script, image_loads, image, tempframes_exists, crop_region>>

\* process_image_file, lines 165-167 (load_image, lines 36-40)
PIF_Load ==
  /\ script = "module" /\ bpc = "start"
  /\ IF image_loads
       THEN bpc' = "loaded" /\ img' = image /\ box_result' = box_result
       ELSE bpc' = "returned" /\ img' = img /\ box_result' = ReturnNone
  /\ UNCHANGED <<notBox, boxEnv, crop_used, crop_offset, found_contours,
                 boxes, dirs_made, files_written, saved_files>>

\* process_image_file, lines 170-171
PIF_Crop ==
  /\ script = "module" /\ bpc = "loaded"
  /\ IF crop_region # NoCrop
       THEN LET r == ApplyLargeCrop(img, crop_region)
            IN /\ crop_used' = r
               /\ crop_offset' = [x |-> r.x, y |-> r.y]
               /\ img' = CroppedShape(img, r)
       ELSE UNCHANGED <<crop_used, crop_offset, img>>
  /\ bpc' = "cropped"
  /\ UNCHANGED <<notBox, boxEnv, found_contours, boxes, dirs_made,
                 files_written, saved_files, box_result>>

\* detect_and_crop_boxes_from_image, line 87: cv2.cvtColor rejects an empty
\* image with cv2.error, which process_image_file does not catch
PIF_DetectRaises ==
  /\ script = "module" /\ bpc = "cropped"
  /\ (img.w = 0 \/ img.h = 0)
  /\ bpc' = "cv2.error"
  /\ UNCHANGED <<notBox, boxEnv, img, crop_used, crop_offset, found_contours,
                 boxes, dirs_made, files_written, saved_files, box_result>>

\* process_image_file, line 174: detect_and_crop_boxes_from_image, lines 87-106
PIF_Detect ==
  /\ script = "module" /\ bpc = "cropped"
  /\ img.w > 0 /\ img.h > 0
  /\ \E contours \in ContourLists(img) :
       /\ found_contours' = contours
       /\ boxes' = FilterBoxes(contours, MinArea, MinWidth, MinHeight)
  /\ bpc' = "detected"
  /\ UNCHANGED <<notBox, boxEnv, img, crop_used, crop_offset, dirs_made,
                 files_written, saved_files, box_result>>

\* process_image_file, lines 175-176
PIF_ReturnEmpty ==
  /\ script = "module" /\ bpc = "detected"
  /\ boxes = <<>>
  /\ box_result' = ReturnList(<<>>)
  /\ bpc' = "returned"
  /\ UNCHANGED <<notBox, boxEnv, img, crop_used, crop_offset, found_contours,
                 boxes, dirs_made, files_written, saved_files>>

\* process_image_file, lines 179-195: the directory, the big crop and one
\* file per box
PIF_Save ==
  /\ script = "module" /\ bpc = "detected"
  /\ boxes # <<>>
  /\ dirs_made' = dirs_made \cup {"output_dir"}
  /\ LET bigcrop == IF tempframes_exists
                      THEN <<[path |-> BoxPath("tempframes", "bigcrop", 0),
                              content |-> img]>>
                      ELSE <<>>
         paths == [i \in DOMAIN boxes |-> BoxPath("output_dir", "box", i)]
     IN /\ files_written' = files_written \o bigcrop \o
             [i \in DOMAIN boxes |-> [path |-> paths[i], content |-> boxes[i]]]
        /\ saved_files' = paths
        /\ box_result' = ReturnList(paths)
  /\ bpc' = "returned"
  /\ UNCHANGED <<notBox, boxEnv, img, crop_used, crop_offset, found_contours,
                 boxes>>

\* src/box_cropper.py, lines 23-26
Standalone_Load ==
  /\ script = "standalone" /\ bpc = "start"
  /\ IF image_loads
       THEN bpc' = "loaded" /\ img' = image /\ box_result' = box_result
       ELSE bpc' = "returned" /\ img' = img /\ box_result' = ReturnNone
  /\ UNCHANGED <<notBox, boxEnv, crop_used, crop_offset, found_contours,
                 boxes, dirs_made, files_written, saved_files>>

\* src/box_cropper.py, lines 29-46: contours, the size filter and the sort
Standalone_Detect ==
  /\ script = "standalone" /\ bpc = "loaded"
  /\ \E contours \in ContourLists(img) :
       /\ found_contours' = contours
       /\ boxes' = SortByY(FilterBoxes(contours, StandaloneMinArea,
                                       StandaloneMinWidth, StandaloneMinHeight))
  /\ bpc' = "detected"
  /\ UNCHANGED <<notBox, boxEnv, img, crop_used, crop_offset, dirs_made,
                 files_written, saved_files, box_result>>

\* src/box_cropper.py, lines 51-58
Standalone_Save ==
  /\ script = "standalone" /\ bpc = "detected"
  /\ dirs_made' = dirs_made \cup {"cropped_boxes"}
  /\ LET paths == [i \in DOMAIN boxes |-> BoxPath("cropped_boxes", "box", i)]
     IN /\ files_written' = files_written \o
             [i \in DOMAIN boxes |-> [path |-> paths[i], content |-> boxes[i]]]
        /\ saved_files' = paths
  /\ box_result' = ReturnNone
  /\ bpc' = "returned"
  /\ UNCHANGED <<notBox, boxEnv, img, crop_used, crop_offset, found_contours,
                 boxes>>

BoxNext ==
  \/ PIF_Load
  \/ PIF_Crop
  \/ PIF_DetectRaises
  \/ PIF_Detect
  \/ PIF_ReturnEmpty
  \/ PIF_Save
  \/ Standalone_Load
  \/ Standalone_Detect
  \/ Standalone_Save

(***************************************************************************)
(* apply_large_crop on its own, over every small image and every integer   *)
(* crop region around it.                                                  *)
(***************************************************************************)
CropInit ==
  /\ script = "crop"
  /\ image_loads = TRUE
  /\ tempframes_exists = FALSE
  /\ image \in {Shape(w, h) : w \in 1..MaxDim, h \in 1..MaxDim}
  /\ img = NoShape
  /\ crop_region \in {Rect(x, y, w, h) : x \in -1..(MaxDim + 1),
                                         y \in {-1, 0, MaxDim + 1},
                                         w \in -1..(MaxDim + 1),
                                         h \in {-1, 1, MaxDim + 1}}
  /\ bpc = "start"
  /\ crop_used = NoCrop /\ crop_offset = NoCrop
  /\ found_contours = <<>> /\ boxes = <<>>
  /\ dirs_made = {} /\ files_written = <<>> /\ saved_files = <<>>
  /\ box_result = Unset

\* apply_large_crop, lines 56-68; img becomes cropped_img
Crop_Apply ==
  /\ script = "crop" /\ bpc = "start"
  /\ LET r == ApplyLargeCrop(image, crop_region)
     IN /\ crop_used' = r
        /\ crop_offset' = [x |-> r.x, y |-> r.y]
        /\ img' = CroppedShape(image, r)
  /\ box_result' = Unset
  /\ bpc' = "returned"
  /\ UNCHANGED <<notBox, boxEnv, found_contours, boxes, dirs_made,
                 files_written, saved_files>>

CropNext == Crop_Apply

(***************************************************************************)
(* Claims about box_cropper.py, checked under SpecBox and SpecCrop.        *)
(***************************************************************************)
Detected == bpc \in {"detected", "returned"} /\ image_loads

\* C5: a contour's bounding rectangle is kept as a box if and only if
\* w*h > min_area, w > min_width and h > min_height, all strict (5000/809/175
\* in detect_and_crop_boxes_from_image, 5000/100/30 in the standalone
\* script); every box comes from exactly one contour and there are never
\* more boxes than contours.
C5_SizeFilter ==
  Detected =>
    LET mw == IF script = "module" THEN 809 ELSE 100
        mh == IF script = "module" THEN 175 ELSE 30
    IN /\ \A i \in DOMAIN found_contours :
            (\E k \in DOMAIN boxes : boxes[k].src = i)
              <=> LET r == found_contours[i]
                  IN r.w * r.h > 5000 /\ r.w > mw /\ r.h > mh
       /\ \A k \in DOMAIN boxes :
            /\ boxes[k].src \in DOMAIN found_contours
            /\ boxes[k].rect = found_contours[boxes[k].src]
       /\ \A k1, k2 \in DOMAIN boxes :
            k1 # k2 => boxes[k1].src # boxes[k2].src
       /\ Len(boxes) <= Len(found_contours)

C5_Witness ==
  /\ script = "module" /\ bpc = "detected"
  /\ Len(boxes) = 1 /\ Len(found_contours) = 2
  /\ \E i \in DOMAIN found_contours :
       found_contours[i].w = 809 /\ found_contours[i].h > 175

C5_Witness_Standalone ==
  /\ script = "standalone" /\ bpc = "detected"
  /\ Len(boxes) = 1 /\ Len(found_contours) = 2
  /\ \E i \in DOMAIN found_contours :
       /\ found_contours[i].w * found_contours[i].h = 5000
       /\ found_contours[i].w > 100 /\ found_contours[i].h > 30

\* C6: the boxes detect_and_crop_boxes_from_image returns, and so the
\* numbering _box_01, _box_02, ... of process_image_file, are sorted by
\* position: the top edge y of each box is <= that of the next, whatever
\* order the contours were found in.
C6_SortedByY ==
  (script = "module" /\ Detected) =>
    \A k \in 1..(Len(boxes) - 1) : boxes[k].rect.y <= boxes[k + 1].rect.y

\* The standalone script does sort its boxes top to bottom.
C6_StandaloneSortedByY ==
  (script = "standalone" /\ Detected) =>
    \A k \in 1..(Len(boxes) - 1) : boxes[k].rect.y <= boxes[k + 1].rect.y

\* C7: process_image_file has exactly three outcomes: None when the image
\* cannot be loaded, an empty list when no box passes the filter, otherwise
\* one saved path per detected box, in detection order, named
\* {output_dir}/{stem}_box_{i:02d}.png for i = 1..n; the None and empty
\* outcomes create no directory and write no file.
C7_Outcomes ==
  (bpc = "returned" /\ script = "module") =>
    \/ /\ box_result = ReturnNone /\ ~image_loads
       /\ dirs_made = {} /\ files_written = <<>>
    \/ /\ box_result = ReturnList(<<>>) /\ image_loads /\ boxes = <<>>
       /\ dirs_made = {} /\ files_written = <<>>
    \/ /\ image_loads /\ boxes # <<>>
       /\ box_result.kind = "list"
       /\ Len(box_result.value) = Len(boxes)
       /\ \A i \in DOMAIN boxes :
            /\ box_result.value[i] =
                 [dir |-> "output_dir", kind |-> "box", n |-> i]
            /\ \E j \in DOMAIN files_written :
                 /\ files_written[j].path = box_result.value[i]
                 /\ files_written[j].content = boxes[i]

C7_ThreeOutcomes ==
  script = "module" => (bpc # "cv2.error" /\ C7_Outcomes)

C7_Witness_Raises ==
  /\ bpc = "cv2.error" /\ image = Shape(50, 50)
  /\ crop_region = Rect(100, 400, 800, 200)
  /\ crop_used.w = 0

\* C8: for every integer crop_region (x, y, w, h) and every image of width
\* W and height H the region apply_large_crop uses satisfies
\* 0 <= x <= x + w <= W and 0 <= y <= y + h <= H, and the returned offset
\* is that clamped (x, y).
C8_CropWithinBounds ==
  (script = "crop" /\ bpc = "returned") =>
    /\ 0 <= crop_used.x /\ crop_used.x <= crop_used.x + crop_used.w
    /\ crop_used.x + crop_used.w <= image.w
    /\ 0 <= crop_used.y /\ crop_used.y <= crop_used.y + crop_used.h
    /\ crop_used.y + crop_used.h <= image.h
    /\ crop_offset = [x |-> crop_used.x, y |-> crop_used.y]

\* C8 for the crop regions whose width and height are not negative.
C8_CropWithinBounds_NonNegativeSize ==
  (crop_region # NoCrop /\ crop_region.w >= 0 /\ crop_region.h >= 0)
    => C8_CropWithinBounds

(***************************************************************************)
(* reduce_duplicates.py                                                    *)
(***************************************************************************)
\* image_extensions, line 14
ImageExtensions == {".jpg", ".jpeg", ".png", ".bmp", ".gif", ".tiff", ".webp"}

\* filename.lower() on the extensions the model uses
LowerExt(e) == CASE e = ".PNG" -> ".png"
                 [] e = ".JPG" -> ".jpg"
                 [] OTHER -> e

\* any(filename.lower().endswith(ext) for ext in image_extensions)
IsImageName(name) == LowerExt(name.ext) \in ImageExtensions

\* hash1 - hash2 of imagehash: the number of bit positions that differ
Hamming(h1, h2) == Cardinality({k \in DOMAIN h1 : h1[k] # h2[k]})

Min3(a, b, c) == Min(a, Min(b, c))

\* "if min(avg_diff, p_diff, d_diff) <= threshold"
IsSimilar_Strict(avg_diff, p_diff, d_diff, t) ==
  Min3(avg_diff, p_diff, d_diff) < t

IsSimilar(avg_diff, p_diff, d_diff, t) == Min3(avg_diff, p_diff, d_diff) <= t

\* The files a directory can hold: images whose three hashes agree or
\* differ in every combination, a file that is no image, an image that
\* PIL cannot open
File(stem, ext, opens, a, p, d) ==
  [name |-> [stem |-> stem, ext |-> ext], opens |-> opens,
   avg_hash |-> a, p_hash |-> p, d_hash |-> d]

FilePool ==
  { File("a", ".png", TRUE, <<0, 0, 0>>, <<0, 0, 0>>, <<0, 0, 0>>),
    File("b", ".PNG", TRUE, <<0, 0, 0>>, <<1, 1, 1>>, <<1, 1, 1>>),
    File("c", ".jpg", TRUE, <<1, 1, 1>>, <<1, 0, 0>>, <<1, 1, 1>>),
    File("d", ".png", TRUE, <<1, 1, 1>>, <<1, 1, 1>>, <<1, 1, 0>>),
    File("e", ".png", TRUE, <<1, 1, 1>>, <<1, 1, 1>>, <<1, 1, 1>>),
    File("f", ".png", TRUE, <<1, 0, 0>>, <<1, 0, 0>>, <<1, 0, 0>>),
    File("notes", ".txt", TRUE, <<0, 0, 0>>, <<0, 0, 0>>, <<0, 0, 0>>),
    File("bad", ".png", FALSE, <<0, 0, 0>>, <<0, 0, 0>>, <<0, 0, 0>>) }

\* os.listdir: every file name once, in any order
Listings ==
  {l \in SeqsUpTo(FilePool, MaxImages) :
     \A i, j \in DOMAIN l : i # j => l[i] # l[j]}

DupInit ==
  /\ directory \in Listings
  /\ threshold \in 0..MaxThreshold
  /\ dpc = "start"
  /\ image_hashes = <<>>
  /\ pair_i = 0 /\ pair_j = 0
  /\ duplicates = <<>>

\* lines 17-31: hash every image file that opens
HashEntry(f) == [path |-> f.name, avg_hash |-> f.avg_hash,
                 p_hash |-> f.p_hash, d_hash |-> f.d_hash]

RECURSIVE HashAll(_)
HashAll(files) ==
  IF files = <<>> THEN <<>>
  ELSE LET f == Head(files)
       IN (IF IsImageName(f.name) /\ f.opens THEN <<HashEntry(f)>> ELSE <<>>)
            \o HashAll(Tail(files))

Dup_ComputeHashes ==
  /\ dpc = "start"
  /\ image_hashes' = HashAll(directory)
  /\ pair_i' = 1 /\ pair_j' = 2
  /\ dpc' = "pairs"
  /\ UNCHANGED <<notDup, directory, threshold, duplicates>>

\* lines 35-44: one iteration of the inner loop
Dup_Compare ==
  /\ dpc = "pairs"
  /\ pair_j <= Len(image_hashes)
  /\ LET img1 == image_hashes[pair_i]
         img2 == image_hashes[pair_j]
         avg_diff == Hamming(img1.avg_hash, img2.avg_hash)
         p_diff == Hamming(img1.p_hash, img2.p_hash)
         d_diff == Hamming(img1.d_hash, img2.d_hash)
     IN duplicates' =
          IF IsSimilar(avg_diff, p_diff, d_diff, threshold)
            THEN Append(duplicates,
                        <<img1.path, img2.path, Min3(avg_diff, p_diff, d_diff)>>)
            ELSE duplicates
  /\ IF pair_j < Len(image_hashes)
       THEN pair_i' = pair_i /\ pair_j' = pair_j + 1
       ELSE pair_i' = pair_i + 1 /\ pair_j' = pair_i + 2
  /\ UNCHANGED <<notDup, directory, threshold, dpc, image_hashes>>

\* line 46
Dup_Return ==
  /\ dpc = "pairs"
  /\ pair_j > Len(image_hashes)
  /\ dpc' = "returned"
  /\ UNCHANGED <<notDup, directory, threshold, image_hashes, pair_i, pair_j,
                 duplicates>>

DupNext ==
  \/ Dup_ComputeHashes
  \/ Dup_Compare
  \/ Dup_Return

(***************************************************************************)
(* Claims about reduce_duplicates.py, checked under SpecDup.               *)
(***************************************************************************)
\* C9: find_duplicates_advanced reports a pair of images if and only if the
\* smallest of their three Hamming distances is <= threshold; the third
\* element of each reported tuple is that minimum; with threshold 0 a pair
\* is reported only if at least one of the three hashes is identical.
C9_NearDuplicates ==
  dpc = "returned" =>
    /\ \A i, j \in DOMAIN image_hashes :
         i < j =>
           LET a == Hamming(image_hashes[i].avg_hash, image_hashes[j].avg_hash)
               p == Hamming(image_hashes[i].p_hash, image_hashes[j].p_hash)
               d == Hamming(image_hashes[i].d_hash, image_hashes[j].d_hash)
               reports == {k \in DOMAIN duplicates :
                             /\ duplicates[k][1] = image_hashes[i].path
                             /\ duplicates[k][2] = image_hashes[j].path}
           IN /\ (reports # {}) <=>
                   (a <= threshold \/ p <= threshold \/ d <= threshold)
              /\ Cardinality(reports) <= 1
              /\ \A k \in reports :
                   /\ duplicates[k][3] \in {a, p, d}
                   /\ duplicates[k][3] <= a
                   /\ duplicates[k][3] <= p
                   /\ duplicates[k][3] <= d
              /\ (threshold = 0 /\ reports # {}) =>
                   \/ image_hashes[i].avg_hash = image_hashes[j].avg_hash
                   \/ image_hashes[i].p_hash = image_hashes[j].p_hash
                   \/ image_hashes[i].d_hash = image_hashes[j].d_hash
    /\ \A k \in DOMAIN duplicates :
         \E i, j \in DOMAIN image_hashes :
           /\ i < j
           /\ duplicates[k][1] = image_hashes[i].path
           /\ duplicates[k][2] = image_hashes[j].path

\* A pair at distance exactly the threshold is reported beside one that is not
C9_Witness ==
  /\ dpc = "returned" /\ Len(image_hashes) = 3 /\ Len(duplicates) = 1
  /\ threshold > 0 /\ duplicates[1][3] = threshold

C9_Witness_ThresholdZero ==
  /\ dpc = "returned" /\ threshold = 0 /\ Len(image_hashes) = 3
  /\ Len(duplicates) = 1 /\ duplicates[1][3] = 0

(***************************************************************************)
(* create_deck.py: remove_duplicates_from_csv                              *)
(***************************************************************************)
\* A CSV field is a sequence of characters; NoField is the None that
\* csv.DictReader gives a column the row does not have
NoField == <<None>>
Whitespace == {" "}

\* str.strip()
RECURSIVE LStrip(_)
LStrip(t) == IF t # <<>> /\ Head(t) \in Whitespace THEN LStrip(Tail(t)) ELSE t

RECURSIVE RStrip(_)
RStrip(t) ==
  IF t # <<>> /\ t[Len(t)] \in Whitespace
    THEN RStrip(SubSeq(t, 1, Len(t) - 1))
    ELSE t

Strip(t) == RStrip(LStrip(t))

KoreanFields == {<<>>, <<"k">>, <<" ", "k">>, <<"m">>, NoField}
EnglishFields == {<<>>, <<"x">>, <<"y", " ">>, NoField}
CsvRows == {[korean_text |-> k, english_text |-> e] :
              k \in KoreanFields, e \in EnglishFields}

\* "korean_text in unique_pairs"
HasKey(pairs, k) == \E i \in DOMAIN pairs : pairs[i][1] = k

\* lines 34-38: the first pair of a korean_text is kept
Insert_Overwrite(pairs, k, e) ==
  IF HasKey(pairs, k)
    THEN [i \in DOMAIN pairs |-> IF pairs[i][1] = k THEN <<k, e>> ELSE pairs[i]]
    ELSE Append(pairs, <<k, e>>)

Insert(pairs, k, e) ==
  IF HasKey(pairs, k) THEN pairs ELSE Append(pairs, <<k, e>>)

\* csv_result before the function has returned
NotReturned == <<"not returned">>

CsvInit ==
  /\ csv_exists \in BOOLEAN
  /\ csv_opens \in (IF csv_exists THEN BOOLEAN ELSE {FALSE})
  /\ rows \in (IF csv_opens THEN SeqsUpTo(CsvRows, MaxRows) ELSE {<<>>})
  /\ cpc = "start"
  /\ csv_opened = FALSE
  /\ csv_exception = FALSE
  /\ row_index = 0
  /\ unique_pairs = <<>>
  /\ duplicate_count = 0
  /\ csv_result = NotReturned

csvEnv == <<csv_exists, csv_opens, rows>>

NextRow == rows[row_index + 1]
RowRaises(r) == r.korean_text = NoField \/ r.english_text = NoField
RowEmpty(r) == Strip(r.korean_text) = <<>> \/ Strip(r.english_text) = <<>>

\* lines 14-19
Csv_CheckExists ==
  /\ cpc = "start"
  /\ IF csv_exists
       THEN cpc' = "opening" /\ csv_result' = csv_result
       ELSE cpc' = "returned" /\ csv_result' = <<>>
  /\ UNCHANGED <<notCsv, csvEnv, csv_opened, csv_exception, row_index,
                 unique_pairs, duplicate_count>>

\* lines 21-23: open(csv_file_path) and the DictReader
Csv_Open ==
  /\ cpc = "opening" /\ csv_opens
  /\ csv_opened' = TRUE
  /\ cpc' = "reading"
  /\ UNCHANGED <<notCsv, csvEnv, csv_exception, row_index, unique_pairs,
                 duplicate_count, csv_result>>

\* lines 22 and 40-42: open() raises (no permission, a directory), the
\* except clause returns []
Csv_OpenRaises ==
  /\ cpc = "opening" /\ ~csv_opens
  /\ csv_exception' = TRUE
  /\ csv_result' = <<>>
  /\ cpc' = "returned"
  /\ UNCHANGED <<notCsv, csvEnv, csv_opened, row_index, unique_pairs,
                 duplicate_count>>

\* lines 26-27 and 40-42: .strip() of a missing column raises, the except
\* clause returns []
Csv_RowRaises_Partial ==
  /\ cpc = "reading" /\ row_index < Len(rows)
  /\ RowRaises(NextRow)
  /\ csv_exception' = TRUE
  /\ csv_result' = unique_pairs
  /\ cpc' = "returned"
  /\ UNCHANGED <<notCsv, csvEnv, csv_opened, row_index, unique_pairs,
                 duplicate_count>>

Csv_RowRaises ==
  /\ cpc = "reading" /\ row_index < Len(rows)
  /\ RowRaises(NextRow)
  /\ csv_exception' = TRUE
  /\ csv_result' = <<>>
  /\ cpc' = "returned"
  /\ UNCHANGED <<notCsv, csvEnv, csv_opened, row_index, unique_pairs,
                 duplicate_count>>

\* lines 30-31
Csv_RowSkipped ==
  /\ cpc = "reading" /\ row_index < Len(rows)
  /\ ~RowRaises(NextRow) /\ RowEmpty(NextRow)
  /\ row_index' = row_index + 1
  /\ UNCHANGED <<notCsv, csvEnv, csv_opened, csv_exception, cpc,
                 unique_pairs, duplicate_count, csv_result>>

\* lines 34-36
Csv_RowDuplicate ==
  /\ cpc = "reading" /\ row_index < Len(rows)
  /\ ~RowRaises(NextRow) /\ ~RowEmpty(NextRow)
  /\ HasKey(unique_pairs, Strip(NextRow.korean_text))
  /\ unique_pairs' = Insert(unique_pairs, Strip(NextRow.korean_text),
                            Strip(NextRow.english_text))
  /\ duplicate_count' = duplicate_count + 1
  /\ row_index' = row_index + 1
  /\ UNCHANGED <<notCsv, csvEnv, csv_opened, csv_exception, cpc, csv_result>>

\* lines 37-38
Csv_RowInserted ==
  /\ cpc = "reading" /\ row_index < Len(rows)
  /\ ~RowRaises(NextRow) /\ ~RowEmpty(NextRow)
  /\ ~HasKey(unique_pairs, Strip(NextRow.korean_text))
  /\ unique_pairs' = Insert(unique_pairs, Strip(NextRow.korean_text),
                            Strip(NextRow.english_text))
  /\ row_index' = row_index + 1
  /\ UNCHANGED <<notCsv, csvEnv, csv_opened, csv_exception, cpc,
                 duplicate_count, csv_result>>

\* lines 44-47
Csv_Return ==
  /\ cpc = "reading" /\ row_index = Len(rows)
  /\ csv_result' = unique_pairs
  /\ cpc' = "returned"
  /\ UNCHANGED <<notCsv, csvEnv, csv_opened, csv_exception, row_index,
                 unique_pairs, duplicate_count>>

CsvNext ==
  \/ Csv_CheckExists
  \/ Csv_Open
  \/ Csv_OpenRaises
  \/ Csv_RowRaises
  \/ Csv_RowSkipped
  \/ Csv_RowDuplicate
  \/ Csv_RowInserted
  \/ Csv_Return

(***************************************************************************)
(* Claims about create_deck.py, checked under SpecCsv.                     *)
(***************************************************************************)
KoreanOf(i) == Strip(rows[i].korean_text)
EnglishOf(i) == Strip(rows[i].english_text)
RowValid(i) == KoreanOf(i) # <<>> /\ EnglishOf(i) # <<>>

\* The first row in which the stripped korean_text k appears
FirstRowOf(k) ==
  CHOOSE i \in DOMAIN rows :
    KoreanOf(i) = k /\ \A j \in 1..(i - 1) : KoreanOf(j) # k

\* The first row in which k appears with both fields non-empty
FirstValidRowOf(k) ==
  CHOOSE i \in DOMAIN rows :
    /\ KoreanOf(i) = k /\ RowValid(i)
    /\ \A j \in 1..(i - 1) : ~(KoreanOf(j) = k /\ RowValid(j))

\* C10: no two returned tuples have the same korean_text; each carries the
\* english_text of the first CSV row in which that (stripped) korean_text
\* appeared; the tuples are in order of first appearance; rows whose
\* korean_text or english_text is empty after stripping never appear.
C10_UniqueFirstAppearance ==
  cpc = "returned" =>
    /\ \A p, q \in DOMAIN csv_result :
         p # q => csv_result[p][1] # csv_result[q][1]
    /\ \A p \in DOMAIN csv_result :
         /\ \E i \in DOMAIN rows : KoreanOf(i) = csv_result[p][1]
         /\ csv_result[p][2] = EnglishOf(FirstRowOf(csv_result[p][1]))
         /\ csv_result[p][1] # <<>> /\ csv_result[p][2] # <<>>
    /\ \A p, q \in DOMAIN csv_result :
         p < q =>
           FirstRowOf(csv_result[p][1]) < FirstRowOf(csv_result[q][1])

\* C10 as amended: "first row" and "first appearance" count only the rows
\* in which both fields are non-empty after stripping.
C10_UniqueFirstValidAppearance ==
  cpc = "returned" =>
    /\ \A p, q \in DOMAIN csv_result :
         p # q => csv_result[p][1] # csv_result[q][1]
    /\ \A p \in DOMAIN csv_result :
         /\ \E i \in DOMAIN rows : KoreanOf(i) = csv_result[p][1] /\ RowValid(i)
         /\ csv_result[p][2] = EnglishOf(FirstValidRowOf(csv_result[p][1]))
         /\ csv_result[p][1] # <<>> /\ csv_result[p][2] # <<>>
    /\ \A p, q \in DOMAIN csv_result :
         p < q =>
           FirstValidRowOf(csv_result[p][1])
             < FirstValidRowOf(csv_result[q][1])

\* A key first seen in a skipped row, then twice with different English
C10_Witness ==
  /\ cpc = "returned" /\ Len(rows) = 3 /\ Len(csv_result) = 1
  /\ duplicate_count = 1
  /\ rows[1].english_text # rows[2].english_text
  /\ rows[1].korean_text # rows[2].korean_text

C10_Witness_SkippedFirst ==
  /\ cpc = "returned" /\ Len(csv_result) = 2
  /\ KoreanOf(1) = csv_result[2][1] /\ ~RowValid(1)

\* C11: only duplicate Korean-English pairs are removed: every distinct
\* (korean_text, english_text) pair of the CSV with both fields non-empty
\* after stripping appears in the returned list, so a row is dropped only
\* when the same pair occurred in an earlier row.
C11_OnlyDuplicatePairsRemoved ==
  (cpc = "returned" /\ csv_opened /\ ~csv_exception) =>
    \A i \in DOMAIN rows :
      RowValid(i) =>
        \E p \in DOMAIN csv_result :
          csv_result[p] = <<KoreanOf(i), EnglishOf(i)>>

\* What the code keeps is every korean_text, each once.
C11_EveryKoreanTextKept ==
  (cpc = "returned" /\ csv_opened /\ ~csv_exception) =>
    \A i \in DOMAIN rows :
      RowValid(i) =>
        \E p \in DOMAIN csv_result : csv_result[p][1] = KoreanOf(i)

\* C12: remove_duplicates_from_csv never raises and never returns partial
\* data: a missing file gives [] without anything being opened, and an
\* exception while reading (a missing korean_text or english_text column
\* included) gives [] whatever was collected from the earlier rows.
C12_NoPartialData ==
  /\ cpc \in {"start", "opening", "reading", "returned"}
  /\ cpc # "returned" => (ENABLED CsvNext /\ csv_result = NotReturned)
  /\ ~csv_exists => ~csv_opened /\ ~csv_exception
  /\ cpc = "returned" =>
       /\ ~csv_exists => csv_result = <<>>
       /\ csv_exception => csv_result = <<>>
       /\ (csv_exists /\ ~csv_opens) => csv_exception
       /\ (\E i \in DOMAIN rows : RowRaises(rows[i])) =>
            csv_exception /\ csv_result = <<>>
       /\ ~csv_exception /\ csv_exists => csv_result = unique_pairs

C12_Witness ==
  /\ cpc = "returned" /\ csv_exception
  /\ Len(unique_pairs) = 2 /\ csv_result = <<>>

C12_Witness_MissingFile ==
  cpc = "returned" /\ ~csv_exists /\ csv_result = <<>>

(***************************************************************************)
(* create_deck.py: main                                                    *)
(***************************************************************************)
\* deck_name = "Korean Vocabulary", line 69
DeckName == <<"K", "o", "r", "e", "a", "n", " ",
              "V", "o", "c", "a", "b", "u", "l", "a", "r", "y">>

\* str.lower() on the letters of the deck name
LowerChar(c) == CASE c = "K" -> "k"
                  [] c = "V" -> "v"
                  [] OTHER -> c

\* package_name = deck_name.lower().replace(" ", "_"), line 70
PackageName ==
  [i \in DOMAIN DeckName |->
     IF LowerChar(DeckName[i]) = " " THEN "_" ELSE LowerChar(DeckName[i])]

\* f"{package_name}.apkg", line 94
PackageFile == PackageName \o <<".", "a", "p", "k", "g">>

\* Note(model=my_model, fields=[korean_text, english_text]), line 86
MakeNote_Swapped(korean_text, english_text) ==
  [model |-> "Korean-English Model", fields |-> <<english_text, korean_text>>]

MakeNote(korean_text, english_text) ==
  [model |-> "Korean-English Model", fields |-> <<korean_text, english_text>>]

\* lines 52-75: the model and the empty deck exist, remove_duplicates_from_csv
\* is being called
MainInit ==
  /\ mpc = "dedup"
  /\ deck_notes = <<>>
  /\ note_count = 0
  /\ package_calls = <<>>
  /\ package_files = {}

\* lines 77-79
Main_NoPairs ==
  /\ mpc = "dedup" /\ cpc = "returned"
  /\ csv_result = <<>>
  /\ mpc' = "returned"
  /\ UNCHANGED <<notMain, deck_notes, note_count, package_calls,
                 package_files>>

\* lines 83-88: one iteration of the loop over unique_pairs
Main_AddNote ==
  /\ mpc \in {"dedup", "notes"} /\ cpc = "returned"
  /\ note_count < Len(csv_result)
  /\ LET pair == csv_result[note_count + 1]
     IN deck_notes' = Append(deck_notes, MakeNote(pair[1], pair[2]))
  /\ note_count' = note_count + 1
  /\ mpc' = "notes"
  /\ UNCHANGED <<notMain, package_calls, package_files>>

\* lines 92-97: write_to_file, whose exception is caught and printed
Main_WritePackage ==
  /\ mpc = "notes"
  /\ note_count = Len(csv_result)
  /\ package_calls' =
       Append(package_calls, [name |-> PackageFile, notes |-> deck_notes])
  /\ \E ok \in BOOLEAN :
       package_files' = IF ok THEN package_files \cup {PackageFile}
                        ELSE package_files
  /\ mpc' = "returned"
  /\ UNCHANGED <<notMain, deck_notes, note_count>>

MainNext ==
  \/ Csv_CheckExists
  \/ Csv_Open
  \/ Csv_OpenRaises
  \/ Csv_RowRaises
  \/ Csv_RowSkipped
  \/ Csv_RowDuplicate
  \/ Csv_RowInserted
  \/ Csv_Return
  \/ Main_NoPairs
  \/ Main_AddNote
  \/ Main_WritePackage

C13_Witness_NoPairs ==
  mpc = "returned" /\ csv_opened /\ ~csv_exception /\ csv_result = <<>>
    /\ Len(rows) > 0

(***************************************************************************)
(* Specifications: one per script.                                         *)
(***************************************************************************)
VideoIdle ==
  /\ video_exists = FALSE /\ cap_opens = FALSE
  /\ video_fps = 0 /\ video_frame_count = 0 /\ readable_frames = 0
  /\ vpc = "idle"
  /\ output_dir_made = FALSE /\ cap_created = FALSE
  /\ fps = None /\ total_frames = None /\ duration = NoTime
  /\ interval = None /\ output_format = None
  /\ start_time = NoTime /\ end_time = NoTime
  /\ start_frame = None /\ end_frame = None /\ cap_pos = None
  /\ frame_count = None /\ extracted_count = None
  /\ extracted_files = <<>> /\ written = <<>> /\ result = None

BoxIdle ==
  /\ script = "idle" /\ image_loads = FALSE /\ tempframes_exists = FALSE
  /\ crop_region = NoCrop /\ bpc = "idle"
  /\ image = NoShape /\ img = NoShape
  /\ crop_used = NoCrop /\ crop_offset = NoCrop
  /\ found_contours = <<>> /\ boxes = <<>>
  /\ dirs_made = {} /\ files_written = <<>> /\ saved_files = <<>>
  /\ box_result = Unset

DupIdle ==
  /\ directory = <<>> /\ threshold = 0 /\ dpc = "idle"
  /\ image_hashes = <<>> /\ pair_i = 0 /\ pair_j = 0 /\ duplicates = <<>>

CsvIdle ==
  /\ csv_exists = FALSE /\ csv_opens = FALSE /\ rows = <<>> /\ cpc = "idle"
  /\ csv_opened = FALSE /\ csv_exception = FALSE /\ row_index = 0
  /\ unique_pairs = <<>> /\ duplicate_count = 0 /\ csv_result = <<>>

MainIdle ==
  /\ mpc = "idle" /\ deck_notes = <<>> /\ note_count = 0
  /\ package_calls = <<>> /\ package_files = {}

InitVideo == VideoInit /\ BoxIdle /\ DupIdle /\ CsvIdle /\ MainIdle
InitBox == BoxInit /\ VideoIdle /\ DupIdle /\ CsvIdle /\ MainIdle
InitCrop == CropInit /\ VideoIdle /\ DupIdle /\ CsvIdle /\ MainIdle
InitDup == DupInit /\ VideoIdle /\ BoxIdle /\ CsvIdle /\ MainIdle
InitCsv == CsvInit /\ VideoIdle /\ BoxIdle /\ DupIdle /\ MainIdle
InitMain == CsvInit /\ MainInit /\ VideoIdle /\ BoxIdle /\ DupIdle

SpecVideo == InitVideo /\ [][VideoNext]_vars
SpecBox == InitBox /\ [][BoxNext]_vars
SpecCrop == InitCrop /\ [][CropNext]_vars
SpecDup == InitDup /\ [][DupNext]_vars
SpecCsv == InitCsv /\ [][CsvNext]_vars
SpecMain == InitMain /\ [][MainNext]_vars

====
